---- MODULE Spec2Model ----
(***************************************************************************)
(* csv2serde: inference of a struct declaration from a CSV table.         *)
(*                                                                         *)
(* Text is modelled as a sequence of one-character strings, so that the    *)
(* parse predicates, the identifier sanitizer and the type names work on   *)
(* characters as the code does.  <<>> is the empty string.                 *)
(***************************************************************************)
EXTENDS Integers, Sequences, FiniteSets, TLC

VARIABLES
    pc,         \* position inside run: "headers", "records", "generate", "returned"
    headers,    \* the header record the csv reader will yield (ok: it decodes)
    config,     \* Config {lines, min_fields, struct_name, blank_lines}
    pending,    \* records still unread in the csv stream
    fields,     \* Vec<Field>, one per header column
    taken,      \* records the take(config.lines) adaptor has yielded so far
    record,     \* the record of the current loop iteration (NoRecord before the first)
    skipped,    \* whether the current iteration hit the min_fields `continue`
    retained,   \* history: the records applied to the fields, in order
    result,     \* the value run returned, Running until then
    code,       \* styling: the text handed to add_blank_lines
    blank,      \* styling: the blank_lines argument of add_blank_lines
    styled,     \* styling: what add_blank_lines returned, NotStyled until then
    args,       \* main: the parsed command line (Args)
    mpc,        \* main: position inside main; "lib" when run is called without main
    disk        \* main: the file at the output path (exists, content)

run_vars == <<pc, headers, config, pending, fields, taken, record, skipped, retained, result>>

style_vars == <<code, blank, styled>>

main_vars == <<args, mpc, disk>>

vars == <<run_vars, style_vars, main_vars>>

\* ---------------------------------------------------------------- bounds

\* Longest csv stream (data records after the header).
MaxRows == 2

\* ------------------------------------------------------------- characters

Digits == <<"0", "1", "2", "3", "4", "5", "6", "7", "8", "9">>

IsDigit(c) == \E i \in 1..10 : Digits[i] = c

DigitVal(c) == (CHOOSE i \in 1..10 : Digits[i] = c) - 1

Lowers == <<"a", "b", "c", "d", "e", "f", "g", "h", "i", "j", "k", "l", "m",
            "n", "o", "p", "q", "r", "s", "t", "u", "v", "w", "x", "y", "z">>

Uppers == <<"A", "B", "C", "D", "E", "F", "G", "H", "I", "J", "K", "L", "M",
            "N", "O", "P", "Q", "R", "S", "T", "U", "V", "W", "X", "Y", "Z">>

IsLower(c) == \E i \in 1..26 : Lowers[i] = c

IsUpper(c) == \E i \in 1..26 : Uppers[i] = c

\* char::to_ascii_lowercase / to_lowercase on the ASCII letters.
ToLower(c) == IF IsUpper(c) THEN Lowers[CHOOSE i \in 1..26 : Uppers[i] = c] ELSE c

LowerStr(s) == [i \in 1..Len(s) |-> ToLower(s[i])]

AllDigits(s) == \A i \in 1..Len(s) : IsDigit(s[i])

Tail_from(s, k) == SubSeq(s, k, Len(s))

\* ------------------------------------------------- str::parse for integers

RECURSIVE StripZeros(_)
StripZeros(s) ==
    IF s # <<>> /\ Head(s) = "0" THEN StripZeros(Tail(s)) ELSE s

RECURSIVE LexLeq(_, _)
\* a <= b for digit strings of equal length.
LexLeq(a, b) ==
    IF a = <<>> THEN TRUE
    ELSE IF DigitVal(Head(a)) < DigitVal(Head(b)) THEN TRUE
    ELSE IF DigitVal(Head(a)) > DigitVal(Head(b)) THEN FALSE
    ELSE LexLeq(Tail(a), Tail(b))

\* The number written by the digits a is at most the number written by limit
\* (limit has no leading zero): the checked_mul/checked_add accumulation of
\* from_str_radix overflows exactly when this fails.
MagnitudeLeq(a, limit) ==
    LET m == StripZeros(a)
    IN  \/ Len(m) < Len(limit)
        \/ Len(m) = Len(limit) /\ LexLeq(m, limit)

\* T::MAX for the unsigned and |T::MIN|, T::MAX for the signed types.
UMax(p) ==
    CASE p = "U8"   -> <<"2","5","5">>
      [] p = "U16"  -> <<"6","5","5","3","5">>
      [] p = "U32"  -> <<"4","2","9","4","9","6","7","2","9","5">>
      [] p = "U64"  -> <<"1","8","4","4","6","7","4","4","0","7","3","7","0","9","5","5","1","6","1","5">>
      [] p = "U128" -> <<"3","4","0","2","8","2","3","6","6","9","2","0","9","3","8","4","6","3","4",
                         "6","3","3","7","4","6","0","7","4","3","1","7","6","8","2","1","1","4","5","5">>

IMax(p) ==
    CASE p = "I8"   -> <<"1","2","7">>
      [] p = "I16"  -> <<"3","2","7","6","7">>
      [] p = "I32"  -> <<"2","1","4","7","4","8","3","6","4","7">>
      [] p = "I64"  -> <<"9","2","2","3","3","7","2","0","3","6","8","5","4","7","7","5","8","0","7">>
      [] p = "I128" -> <<"1","7","0","1","4","1","1","8","3","4","6","0","4","6","9","2","3","1","7",
                         "3","1","6","8","7","3","0","3","7","1","5","8","8","4","1","0","5","7","2","7">>

IMinAbs(p) ==
    CASE p = "I8"   -> <<"1","2","8">>
      [] p = "I16"  -> <<"3","2","7","6","8">>
      [] p = "I32"  -> <<"2","1","4","7","4","8","3","6","4","8">>
      [] p = "I64"  -> <<"9","2","2","3","3","7","2","0","3","6","8","5","4","7","7","5","8","0","8">>
      [] p = "I128" -> <<"1","7","0","1","4","1","1","8","3","4","6","0","4","6","9","2","3","1","7",
                         "3","1","6","8","7","3","0","3","7","1","5","8","8","4","1","0","5","7","2","8">>

\* field.parse::<uN>().is_ok(): an optional '+', then one or more digits, in
\* range.  A '-' is not a sign for an unsigned type, it is an invalid digit.
ParsesUnsigned(p, field) ==
    /\ field # <<>>
    /\ LET digits == IF Head(field) = "+" THEN Tail(field) ELSE field
       IN  /\ digits # <<>>
           /\ AllDigits(digits)
           /\ MagnitudeLeq(digits, UMax(p))

\* field.parse::<iN>().is_ok(): an optional '+' or '-', then one or more
\* digits, in range (the negative range reaches one further).
ParsesSigned(p, field) ==
    /\ field # <<>>
    /\ LET negative == Head(field) = "-"
           digits == IF Head(field) \in {"+", "-"} THEN Tail(field) ELSE field
       IN  /\ digits # <<>>
           /\ AllDigits(digits)
           /\ MagnitudeLeq(digits, IF negative THEN IMinAbs(p) ELSE IMax(p))

\* --------------------------------------------------- str::parse for floats

RECURSIVE LeadingDigits(_)
\* Number of digits at the front of s.
LeadingDigits(s) ==
    IF s # <<>> /\ IsDigit(Head(s)) THEN 1 + LeadingDigits(Tail(s)) ELSE 0

\* The exponent part: empty, or e/E, an optional sign and one or more digits.
IsExponent(s) ==
    \/ s = <<>>
    \/ /\ Head(s) \in {"e", "E"}
       /\ LET r == Tail(s)
              d == IF r # <<>> /\ Head(r) \in {"+", "-"} THEN Tail(r) ELSE r
          IN  d # <<>> /\ AllDigits(d)

\* The decimal grammar of dec2flt: digits, an optional '.', digits, with at
\* least one digit in all, then the exponent.
IsDecimal(s) ==
    LET n1 == LeadingDigits(s)
        r1 == Tail_from(s, n1 + 1)
        dot == r1 # <<>> /\ Head(r1) = "."
        r2 == IF dot THEN Tail(r1) ELSE r1
        n2 == IF dot THEN LeadingDigits(r2) ELSE 0
        r3 == Tail_from(r2, n2 + 1)
    IN  n1 + n2 > 0 /\ IsExponent(r3)

\* field.parse::<f32>().is_ok() and field.parse::<f64>().is_ok(): the two
\* types share one grammar and saturate instead of failing on range, so they
\* accept the same strings.
ParsesFloat(field) ==
    /\ field # <<>>
    /\ LET body == IF Head(field) \in {"+", "-"} THEN Tail(field) ELSE field
       IN  \/ LowerStr(body) \in { <<"i","n","f">>, <<"n","a","n">>,
                                   <<"i","n","f","i","n","i","t","y">> }
           \/ IsDecimal(body)

\* ------------------------------------------------------------- TypeParser

all == <<"U8", "U16", "U32", "U64", "U128", "I8", "I16", "I32", "I64", "I128",
         "F32", "F64", "String">>

TYPE_NAMES == <<
    <<"u","8">>, <<"u","1","6">>, <<"u","3","2">>, <<"u","6","4">>, <<"u","1","2","8">>,
    <<"i","8">>, <<"i","1","6">>, <<"i","3","2">>, <<"i","6","4">>, <<"i","1","2","8">>,
    <<"f","3","2">>, <<"f","6","4">>,
    <<"S","t","r","i","n","g">> >>

OPTIONAL_TYPE_NAMES == <<
    <<"O","p","t","i","o","n","<","u","8",">">>,
    <<"O","p","t","i","o","n","<","u","1","6",">">>,
    <<"O","p","t","i","o","n","<","u","3","2",">">>,
    <<"O","p","t","i","o","n","<","u","6","4",">">>,
    <<"O","p","t","i","o","n","<","u","1","2","8",">">>,
    <<"O","p","t","i","o","n","<","i","8",">">>,
    <<"O","p","t","i","o","n","<","i","1","6",">">>,
    <<"O","p","t","i","o","n","<","i","3","2",">">>,
    <<"O","p","t","i","o","n","<","i","6","4",">">>,
    <<"O","p","t","i","o","n","<","i","1","2","8",">">>,
    <<"O","p","t","i","o","n","<","f","3","2",">">>,
    <<"O","p","t","i","o","n","<","f","6","4",">">>,
    <<"O","p","t","i","o","n","<","S","t","r","i","n","g",">">> >>

\* `*self as usize`: the position of the variant in the enum, from 0.
index(p) == (CHOOSE i \in 1..Len(all) : all[i] = p) - 1

\* A variant of TypeParser::type_name that ignores the optional flag.
TypeParser_type_name_bare(p, optional) == TYPE_NAMES[index(p) + 1]

\* TypeParser::type_name
TypeParser_type_name(p, optional) ==
    IF optional THEN OPTIONAL_TYPE_NAMES[index(p) + 1] ELSE TYPE_NAMES[index(p) + 1]

\* A variant of can_parse whose String arm accepts only what no number accepts.
can_parse_strict(p, field) ==
    CASE p = "String" -> ~ParsesFloat(field)
      [] p \in {"U8", "U16", "U32", "U64", "U128"} -> ParsesUnsigned(p, field)
      [] p \in {"I8", "I16", "I32", "I64", "I128"} -> ParsesSigned(p, field)
      [] p \in {"F32", "F64"} -> ParsesFloat(field)

\* TypeParser::can_parse
can_parse(p, field) ==
    CASE p = "String" -> TRUE
      [] p \in {"U8", "U16", "U32", "U64", "U128"} -> ParsesUnsigned(p, field)
      [] p \in {"I8", "I16", "I32", "I64", "I128"} -> ParsesSigned(p, field)
      [] p \in {"F32", "F64"} -> ParsesFloat(field)

\* ------------------------------------------------------ identifier sanitizer

\* char::is_ascii_punctuation (the backquote, which a TLA+ string cannot hold,
\* is left out: no text of the model contains it).
AsciiPunctuation == {"!", "\"", "#", "$", "%", "&", "'", "(", ")", "*", "+", ",", "-", ".", "/", ":", ";", "<", "=", ">", "?", "@", "[", "\\", "]", "^", "_", "{", "|", "}", "~"}

IsPunct(c) == c \in AsciiPunctuation

\* str::replace(|c| c.is_ascii_punctuation(), "_")
ReplacePunct(s) == [i \in 1..Len(s) |-> IF IsPunct(s[i]) THEN "_" ELSE s[i]]

RECURSIVE TrimStartUnderscores(_)
\* str::trim_start_matches('_')
TrimStartUnderscores(s) ==
    IF s # <<>> /\ Head(s) = "_" THEN TrimStartUnderscores(Tail(s)) ELSE s

\* convert_case, Boundary::defaults(): a delimiter character is removed and
\* ends the word.
IsDelim(c) == c \in {"_", "-", " "}

\* convert_case: a word starts at d when (c, d) is lower-upper or a
\* letter-digit / digit-letter pair, or when (c, d, e) is upper-upper-lower
\* (the end of an acronym).
SplitsBefore(c, d, e) ==
    \/ IsLower(c) /\ IsUpper(d)
    \/ (IsLower(c) \/ IsUpper(c)) /\ IsDigit(d)
    \/ IsDigit(c) /\ (IsLower(d) \/ IsUpper(d))
    \/ IsUpper(c) /\ IsUpper(d) /\ IsLower(e)

RECURSIVE SplitWords(_, _, _, _)
\* convert_case segmentation::split: scans s from position i with the word
\* being built in word and the finished words in words.
SplitWords(s, i, word, words) ==
    IF i > Len(s) THEN Append(words, word)
    ELSE IF IsDelim(s[i]) THEN SplitWords(s, i + 1, <<>>, Append(words, word))
    ELSE IF i > 1 /\ SplitsBefore(s[i - 1], s[i], IF i < Len(s) THEN s[i + 1] ELSE "")
         THEN SplitWords(s, i + 1, <<s[i]>>, Append(words, word))
    ELSE SplitWords(s, i + 1, Append(word, s[i]), words)

RECURSIVE JoinWords(_)
\* The non-empty words, lower-cased, joined by '_'.
JoinWords(words) ==
    IF words = <<>> THEN <<>>
    ELSE IF Len(words) = 1 THEN LowerStr(words[1])
    ELSE LowerStr(words[1]) \o <<"_">> \o JoinWords(Tail(words))

\* Casing::to_case(Case::Snake)
to_case_Snake(s) ==
    JoinWords(SelectSeq(SplitWords(s, 1, <<>>, <<>>), LAMBDA w : w # <<>>))

\* The printable ASCII characters in code order: str's Ord compares bytes.
Ascii == <<" ", "!", "\"", "#", "$", "%", "&", "'", "(", ")", "*", "+", ",", "-", ".", "/",
          "0", "1", "2", "3", "4", "5", "6", "7", "8", "9", ":", ";", "<", "=", ">", "?",
          "@", "A", "B", "C", "D", "E", "F", "G", "H", "I", "J", "K", "L", "M", "N", "O",
          "P", "Q", "R", "S", "T", "U", "V", "W", "X", "Y", "Z", "[", "\\", "]", "^", "_",
          "a", "b", "c", "d", "e", "f", "g", "h", "i", "j", "k", "l", "m", "n", "o",
          "p", "q", "r", "s", "t", "u", "v", "w", "x", "y", "z", "{", "|", "}", "~">>

CharOrd(c) == CHOOSE i \in 1..Len(Ascii) : Ascii[i] = c

RECURSIVE StrCmp(_, _)
\* <str as Ord>::cmp: -1, 0 or 1.
StrCmp(a, b) ==
    IF a = <<>> /\ b = <<>> THEN 0
    ELSE IF a = <<>> THEN -1
    ELSE IF b = <<>> THEN 1
    ELSE IF CharOrd(Head(a)) < CharOrd(Head(b)) THEN -1
    ELSE IF CharOrd(Head(a)) > CharOrd(Head(b)) THEN 1
    ELSE StrCmp(Tail(a), Tail(b))

RESERVED_KEYWORDS == <<
    <<"'","s","t","a","t","i","c">>,
    <<"a","b","s","t","r","a","c","t">>,
    <<"a","s">>,
    <<"a","s","y","n","c">>,
    <<"a","w","a","i","t">>,
    <<"b","e","c","o","m","e">>,
    <<"b","o","x">>,
    <<"b","r","e","a","k">>,
    <<"c","o","n","s","t">>,
    <<"c","o","n","t","i","n","u","e">>,
    <<"c","r","a","t","e">>,
    <<"d","o">>,
    <<"d","y","n">>,
    <<"e","l","s","e">>,
    <<"e","n","u","m">>,
    <<"e","x","t","e","r","n">>,
    <<"f","a","l","s","e">>,
    <<"f","i","n","a","l">>,
    <<"f","n">>,
    <<"f","o","r">>,
    <<"i","f">>,
    <<"i","m","p","l">>,
    <<"i","n">>,
    <<"l","e","t">>,
    <<"l","o","o","p">>,
    <<"m","a","c","r","o">>,
    <<"m","a","c","r","o","_","r","u","l","e","s">>,
    <<"m","a","t","c","h">>,
    <<"m","o","d">>,
    <<"m","o","v","e">>,
    <<"m","u","t">>,
    <<"o","v","e","r","r","i","d","e">>,
    <<"p","r","i","v">>,
    <<"p","u","b">>,
    <<"r","e","f">>,
    <<"r","e","t","u","r","n">>,
    <<"s","e","l","f">>,
    <<"S","e","l","f">>,
    <<"s","t","a","t","i","c">>,
    <<"s","t","r","u","c","t">>,
    <<"s","u","p","e","r">>,
    <<"t","r","a","i","t">>,
    <<"t","r","u","e">>,
    <<"t","r","y">>,
    <<"t","y","p","e">>,
    <<"t","y","p","e","o","f">>,
    <<"u","n","i","o","n">>,
    <<"u","n","s","a","f","e">>,
    <<"u","n","s","i","z","e","d">>,
    <<"u","s","e">>,
    <<"v","i","r","t","u","a","l">>,
    <<"w","h","e","r","e">>,
    <<"w","h","i","l","e">>,
    <<"y","i","e","l","d">> >>

RECURSIVE BinarySearch(_, _, _, _)
\* <[T]>::binary_search over s[left+1 .. right] (0-based half-open
\* [left, right)): the probe is the middle element, an equal probe ends it.
BinarySearch(s, x, left, right) ==
    IF left >= right THEN FALSE
    ELSE LET mid == left + (right - left) \div 2
             c == StrCmp(s[mid + 1], x)
         IN  IF c = 0 THEN TRUE
             ELSE IF c < 0 THEN BinarySearch(s, x, mid + 1, right)
             ELSE BinarySearch(s, x, left, mid)

\* keywords::check: RESERVED_KEYWORDS.binary_search(&name).is_ok()
keywords_check(name) == BinarySearch(RESERVED_KEYWORDS, name, 0, Len(RESERVED_KEYWORDS))

\* ------------------------------------------------------------------ Field

\* Option<usize>
NoneOpt == [some |-> FALSE, v |-> 0]

Some(n) == [some |-> TRUE, v |-> n]

\* The name computed by `impl From<&str> for Field` before the keyword check.
Sanitize(field) == to_case_Snake(TrimStartUnderscores(ReplacePunct(field)))

\* The Field literal of `impl From<&str> for Field`.
NewField(name, raw_name) ==
    [name |-> name,
     raw_name |-> raw_name,
     valid_parsers |-> all,
     optional |-> FALSE,
     is_empty |-> TRUE]

\* impl From<&str> for Field
Field_from(field) ==
    LET name == Sanitize(field)
    IN  NewField(IF keywords_check(name) THEN <<"r", "#">> \o name ELSE name, field)

\* A variant of update_for in which a value clears the optional flag.
update_for_forgetful(self, field) ==
    IF field = <<>>
    THEN [self EXCEPT !.optional = TRUE]
    ELSE [self EXCEPT !.valid_parsers = SelectSeq(self.valid_parsers,
                                                  LAMBDA parser : can_parse(parser, field)),
                      !.is_empty = FALSE,
                      !.optional = FALSE]

\* A variant of update_for that recomputes the candidates from the whole list.
update_for_recomputed(self, field) ==
    IF field = <<>>
    THEN [self EXCEPT !.optional = TRUE]
    ELSE [self EXCEPT !.valid_parsers = SelectSeq(all, LAMBDA parser : can_parse(parser, field)),
                      !.is_empty = FALSE]

\* Field::update_for
update_for(self, field) ==
    IF field = <<>>
    THEN [self EXCEPT !.optional = TRUE]
    ELSE [self EXCEPT !.valid_parsers = SelectSeq(self.valid_parsers,
                                                  LAMBDA parser : can_parse(parser, field)),
                      !.is_empty = FALSE]

Contains(s, x) == \E i \in 1..Len(s) : s[i] = x

OptionUnit == <<"O","p","t","i","o","n","<","(",")",">">>

\* A variant of Selected that takes the last remaining candidate of the order.
Selected_last(self) ==
    IF \E i \in 1..Len(all) : Contains(self.valid_parsers, all[i])
    THEN all[CHOOSE i \in 1..Len(all) :
                 /\ Contains(self.valid_parsers, all[i])
                 /\ \A j \in (i + 1)..Len(all) : ~Contains(self.valid_parsers, all[j])]
    ELSE "String"

\* The candidate Field::type_name picks: the first of TypeParser::all() that
\* valid_parsers contains, String when there is none.
Selected(self) ==
    IF \E i \in 1..Len(all) : Contains(self.valid_parsers, all[i])
    THEN all[CHOOSE i \in 1..Len(all) :
                 /\ Contains(self.valid_parsers, all[i])
                 /\ \A j \in 1..(i - 1) : ~Contains(self.valid_parsers, all[j])]
    ELSE "String"

\* A variant of Field::type_name that wraps the placeholder of an optional column.
Field_type_name_rewrapped(self) ==
    IF self.is_empty
    THEN IF self.optional THEN <<"O","p","t","i","o","n","<">> \o OptionUnit \o <<">">>
         ELSE OptionUnit
    ELSE TypeParser_type_name(Selected(self), self.optional)

\* Field::type_name
Field_type_name(self) ==
    IF self.is_empty THEN OptionUnit
    ELSE TypeParser_type_name(Selected(self), self.optional)

\* --------------------------------------------------------- code generation

IsIdentStart(c) == IsLower(c) \/ IsUpper(c) \/ c = "_"

IsIdentContinue(c) == IsIdentStart(c) \/ IsDigit(c)

\* proc_macro2's validate_ident: what Ident::new accepts.
IsValidIdent(s) ==
    /\ s # <<>>
    /\ IsIdentStart(s[1])
    /\ \A i \in 2..Len(s) : IsIdentContinue(s[i])

HasRawPrefix(s) == Len(s) >= 2 /\ s[1] = "r" /\ s[2] = "#"

\* Words Ident::new_raw refuses.
NotRawable == { <<"_">>, <<"s","u","p","e","r">>, <<"s","e","l","f">>, <<"S","e","l","f">>, <<"c","r","a","t","e">> }

\* format_ident!("{}", s) panics: the text is no identifier, or it is r#
\* followed by a word that cannot be raw.
IdentPanics(s) ==
    IF HasRawPrefix(s)
    THEN ~IsValidIdent(Tail_from(s, 3)) \/ Tail_from(s, 3) \in NotRawable
    ELSE ~IsValidIdent(s)

\* The words syn refuses to parse as an identifier.
SynKeywords == {
    <<"a","b","s","t","r","a","c","t">>, <<"a","s">>, <<"a","s","y","n","c">>,
    <<"a","w","a","i","t">>, <<"b","e","c","o","m","e">>, <<"b","o","x">>,
    <<"b","r","e","a","k">>, <<"c","o","n","s","t">>, <<"c","o","n","t","i","n","u","e">>,
    <<"c","r","a","t","e">>, <<"d","o">>, <<"d","y","n">>,
    <<"e","l","s","e">>, <<"e","n","u","m">>, <<"e","x","t","e","r","n">>,
    <<"f","a","l","s","e">>, <<"f","i","n","a","l">>, <<"f","n">>,
    <<"f","o","r">>, <<"i","f">>, <<"i","m","p","l">>,
    <<"i","n">>, <<"l","e","t">>, <<"l","o","o","p">>,
    <<"m","a","c","r","o">>, <<"m","a","t","c","h">>, <<"m","o","d">>,
    <<"m","o","v","e">>, <<"m","u","t">>, <<"o","v","e","r","r","i","d","e">>,
    <<"p","r","i","v">>, <<"p","u","b">>, <<"r","e","f">>,
    <<"r","e","t","u","r","n">>, <<"s","e","l","f">>, <<"S","e","l","f">>,
    <<"s","t","a","t","i","c">>, <<"s","t","r","u","c","t">>, <<"s","u","p","e","r">>,
    <<"t","r","a","i","t">>, <<"t","r","u","e">>, <<"t","r","y">>,
    <<"t","y","p","e">>, <<"t","y","p","e","o","f">>, <<"u","n","s","a","f","e">>,
    <<"u","n","s","i","z","e","d">>, <<"u","s","e">>, <<"v","i","r","t","u","a","l">>,
    <<"w","h","e","r","e">>, <<"w","h","i","l","e">>, <<"y","i","e","l","d">> }

RECURSIVE Balanced(_, _)
\* TokenStream::from_str succeeds: the parentheses of s are balanced (depth is
\* the number of groups open so far).
Balanced(s, depth) ==
    IF s = <<>> THEN depth = 0
    ELSE IF Head(s) = "(" THEN Balanced(Tail(s), depth + 1)
    ELSE IF Head(s) = ")" THEN depth > 0 /\ Balanced(Tail(s), depth - 1)
    ELSE Balanced(Tail(s), depth)

NoText == [some |-> FALSE, v |-> <<>>]

SomeText(s) == [some |-> TRUE, v |-> s]

\* Results of run (decl and text are empty unless the result is Ok).
Running == [kind |-> "Running", error |-> "", decl |-> <<>>, text |-> <<>>]

Panic == [kind |-> "Panic", error |-> "", decl |-> <<>>, text |-> <<>>]

Err(e) == [kind |-> "Err", error |-> e, decl |-> <<>>, text |-> <<>>]

\* Ok(result): the text returned, with the syntax tree it was printed from.
Ok(d, t) == [kind |-> "Ok", error |-> "", decl |-> d, text |-> t]

\* A variant of FieldTokens that compares the raw header with the name before
\* the reserved-word escape.
FieldTokens_unescaped(f) ==
    [ident |-> f.name,
     rename |-> IF Sanitize(f.raw_name) # f.raw_name THEN SomeText(f.raw_name) ELSE NoText,
     ty |-> Field_type_name(f)]

\* One field of the declaration: the identifier, the serde rename attribute
\* (present when the name differs from the raw header) and the type.
FieldTokens(f) ==
    [ident |-> f.name,
     rename |-> IF f.name # f.raw_name THEN SomeText(f.raw_name) ELSE NoText,
     ty |-> Field_type_name(f)]

\* proc_macro2's Literal::string: the characters of s, with '"' and '\'
\* escaped by a backslash (the texts here hold printable ASCII only).
RECURSIVE escape(_)
escape(s) ==
    IF s = <<>> THEN <<>>
    ELSE (IF Head(s) \in {"\"", "\\"} THEN <<"\\", Head(s)>> ELSE <<Head(s)>>) \o escape(Tail(s))

Indent == <<" "," "," "," ">>

\* prettyplease::unparse on one field: the attribute line, when there is one,
\* and the field line with its trailing comma.
unparse_field(ft) ==
    (IF ft.rename.some
     THEN Indent \o <<"#","[","s","e","r","d","e","(","r","e","n","a","m","e"," ","="," ","\"">> \o escape(ft.rename.v) \o <<"\"",")","]","\n">>
     ELSE <<>>)
    \o Indent \o <<"p","u","b"," ">> \o ft.ident \o <<":"," ">> \o ft.ty \o <<",","\n">>

RECURSIVE unparse_fields(_)
unparse_fields(decl) ==
    IF decl = <<>> THEN <<>> ELSE unparse_field(Head(decl)) \o unparse_fields(Tail(decl))

\* prettyplease::unparse on the file holding the struct: the derive attribute,
\* the struct line, one unit per field and the closing brace; `{}` for a struct
\* without fields.
unparse(struct_name, decl) ==
    <<"#","[","d","e","r","i","v","e","(","D","e","b","u","g",","," ","D","e","s","e","r","i","a","l","i","z","e",")","]","\n","p","u","b"," ","s","t","r","u","c","t"," ">> \o struct_name \o
    (IF decl = <<>> THEN <<" ","{","}","\n">>
     ELSE <<" ","{","\n">> \o unparse_fields(decl) \o <<"}","\n">>)

\* ----------------------------------------------------------------- styling

\* Position of the first c in s, 0 when s holds none (str::split_once).
FirstIndex(s, c) ==
    IF \E i \in 1..Len(s) : s[i] = c
    THEN CHOOSE i \in 1..Len(s) : s[i] = c /\ \A j \in 1..(i - 1) : s[j] # c
    ELSE 0

\* Position of the last c in s, 0 when s holds none (str::rsplit_once).
LastIndex(s, c) ==
    IF \E i \in 1..Len(s) : s[i] = c
    THEN CHOOSE i \in 1..Len(s) : s[i] = c /\ \A j \in (i + 1)..Len(s) : s[j] # c
    ELSE 0

RECURSIVE split_inclusive(_, _)
\* str::split_inclusive(c): the pieces of s, each ending with its c; what
\* follows the last c is the last piece, unless it is empty.
split_inclusive(s, c) ==
    LET k == FirstIndex(s, c)
    IN  IF s = <<>> THEN <<>>
        ELSE IF k = 0 THEN <<s>>
        ELSE <<SubSeq(s, 1, k)>> \o split_inclusive(Tail_from(s, k + 1), c)

\* str::ends_with(c)
ends_with(s, c) == s # <<>> /\ s[Len(s)] = c

\* "\n".repeat(blank_lines)
replacement_separator(blank_lines) == [i \in 1..blank_lines |-> "\n"]

RECURSIVE push_parts(_, _)
\* The `while let Some(s) = iter.next()` loop: each piece, followed by the
\* separator when the next piece exists and ends with a comma.
push_parts(pieces, sep) ==
    IF pieces = <<>> THEN <<>>
    ELSE Head(pieces)
         \o (IF Len(pieces) >= 2 /\ ends_with(pieces[2], ",") THEN sep ELSE <<>>)
         \o push_parts(Tail(pieces), sep)

\* What a call of add_blank_lines gives: not called yet, a text, or a panic
\* of one of its expect() calls.
NotStyled == [kind |-> "None", text |-> <<>>]

StylePanic == [kind |-> "Panic", text |-> <<>>]

StyleOk(t) == [kind |-> "Ok", text |-> t]

\* A variant of add_blank_lines that forgets the text after the closing brace.
add_blank_lines_truncating(code_, blank_lines) ==
    LET open == FirstIndex(code_, "{")
        rest0 == Tail_from(code_, open + 1)
        close == LastIndex(rest0, "}")
    IN  IF open = 0 \/ close = 0 THEN StylePanic
        ELSE StyleOk(SubSeq(code_, 1, open - 1) \o <<"{">>
                     \o push_parts(split_inclusive(SubSeq(rest0, 1, close - 1), ","),
                                   replacement_separator(blank_lines))
                     \o <<"}">>)

\* styling::add_blank_lines
add_blank_lines(code_, blank_lines) ==
    LET open == FirstIndex(code_, "{")
        rest0 == Tail_from(code_, open + 1)
        close == LastIndex(rest0, "}")
    IN  IF open = 0 \/ close = 0 THEN StylePanic
        ELSE StyleOk(SubSeq(code_, 1, open - 1) \o <<"{">>
                     \o push_parts(split_inclusive(SubSeq(rest0, 1, close - 1), ","),
                                   replacement_separator(blank_lines))
                     \o <<"}">>
                     \o Tail_from(rest0, close + 1))

\* codegen::generate: the syntax tree of the declaration (decl) and its
\* printed text, styled when blank_lines is set and positive.
generate(struct_name, fs, cfg) ==
    IF \/ IdentPanics(struct_name)
       \/ \E i \in 1..Len(fs) : IdentPanics(fs[i].name)
       \/ \E i \in 1..Len(fs) : ~Balanced(Field_type_name(fs[i]), 0)
    THEN Panic
    ELSE IF \/ struct_name \in SynKeywords
            \/ \E i \in 1..Len(fs) : fs[i].name \in SynKeywords
    THEN Err("CantGenerateCode")
    ELSE LET syntax_tree == [i \in 1..Len(fs) |-> FieldTokens(fs[i])]
             printed == unparse(struct_name, syntax_tree)
         IN  IF cfg.blank_lines.some /\ cfg.blank_lines.v > 0
             THEN LET s == add_blank_lines(printed, cfg.blank_lines.v)
                  IN  IF s.kind = "Panic" THEN Panic ELSE Ok(syntax_tree, s.text)
             ELSE Ok(syntax_tree, printed)

\* ------------------------------------------------------------------ inputs

\* Tokens of the data records (after the reader's Trim::All).
Tokens == { <<>>, <<"7">>, <<"-","1">>, <<"x">> }

\* Tokens around the range of every candidate type.
TypeTokens == { <<>>,
    <<"7">>, <<"2","5","5">>, <<"2","5","6">>,
    <<"6","5","5","3","6">>, <<"4","2","9","4","9","6","7","2","9","6">>, <<"1","8","4","4","6","7","4","4","0","7","3","7","0","9","5","5","1","6","1","6">>,
    <<"3","4","0","2","8","2","3","6","6","9","2","0","9","3","8","4","6","3","4","6","3","3","7","4","6","0","7","4","3","1","7","6","8","2","1","1","4","5","6">>, <<"-","1">>, <<"-","1","2","9">>,
    <<"-","3","2","7","6","9">>, <<"-","2","1","4","7","4","8","3","6","4","9">>, <<"-","9","2","2","3","3","7","2","0","3","6","8","5","4","7","7","5","8","0","9">>,
    <<"-","1","7","0","1","4","1","1","8","3","4","6","0","4","6","9","2","3","1","7","3","1","6","8","7","3","0","3","7","1","5","8","8","4","1","0","5","7","2","9">>, <<"1",".","5">>, <<"+","7">>,
    <<"1","e","3">>, <<"n","a","n">>, <<"-">>,
    <<"x">> }

\* Short tokens for the records whose length differs from the header's.
FewTokens == { <<>>, <<"7">> }

H_id == <<"i","d">>

H_first_name == <<"F","i","r","s","t"," ","N","a","m","e">>

H_score == <<"S","c","o","r","e">>

H_type == <<"t","y","p","e">>

H_empty == <<>>

H_1st == <<"1","s","t">>

\* Header records: an empty file, one column, two columns.
HeaderRows == { <<>>, <<H_id>>, <<H_empty>>, <<H_1st>>,
                <<H_id, H_first_name>>, <<H_type, H_score>> }

StructNames == { <<"R","e","c">>, <<"1">> }

\* Rows of n tokens over the set toks.
Rows(n, toks) == [1..n -> toks]

\* What the csv reader may hold as its next record for a header of n columns:
\* a record of n tokens, a record with one token fewer or more, or bytes it
\* cannot decode.
Records(n, toks) ==
    {[ok |-> TRUE, row |-> r] : r \in Rows(n, toks)}
    \cup {[ok |-> TRUE, row |-> r] : r \in Rows(n + 1, FewTokens)}
    \cup (IF n > 1 THEN {[ok |-> TRUE, row |-> r] : r \in Rows(n - 1, FewTokens)} ELSE {})
    \cup {[ok |-> FALSE, row |-> <<>>]}

NoRecord == [ok |-> TRUE, row |-> <<>>]

Configs ==
    [lines : {NoneOpt} \cup {Some(n) : n \in 0..MaxRows},
     min_fields : {NoneOpt, Some(0), Some(1), Some(2)},
     struct_name : StructNames,
     blank_lines : {NoneOpt}]

\* --------------------------------------------------------------------- run

NumCols == Len(fields)

\* A variant of RecordIsErr for a reader that accepts records of any length.
RecordIsErr_flexible(rec, ncols) == ~rec.ok

\* `record.map_err(Error::CantParseRecord)?` returns: the reader could not
\* decode the record, or (the reader is built without flexible(true)) the
\* record's length differs from the header's.
RecordIsErr(rec, ncols) == ~rec.ok \/ Len(rec.row) # ncols

NonEmptyCount(row) == Cardinality({i \in 1..Len(row) : row[i] # <<>>})

\* A variant of Skips that keeps a row with exactly min_fields non-empty tokens.
Skips_below(row, min_fields) == min_fields.some /\ NonEmptyCount(row) < min_fields.v

\* The min_fields `continue`.
Skips(row, min_fields) == min_fields.some /\ NonEmptyCount(row) <= min_fields.v

\* A variant of CanTake that takes one record more than the limit.
CanTake_inclusive(lines, n) == ~lines.some \/ n <= lines.v

\* `reader.records().take(config.lines)` yields another record: config.lines
\* is usize::MAX when the limit is unset, above any count reached here.
CanTake(lines, n) == ~lines.some \/ n < lines.v

\* The `for (i, field) in record.iter().enumerate()` loop on the fields fs.
ApplyRecord(fs, row) ==
    [i \in 1..Len(fs) |-> IF i <= Len(row) THEN update_for(fs[i], row[i]) ELSE fs[i]]

RECURSIVE ApplyAll(_, _)
\* The fields after the rows of the sequence rows were applied in order.
ApplyAll(fs, rows) ==
    IF rows = <<>> THEN fs ELSE ApplyAll(ApplyRecord(fs, Head(rows)), Tail(rows))

\* No command line: run is called as a library function.
NoArgs ==
    [file |-> NoText, name |-> NoText, output |-> FALSE, force |-> FALSE,
     lines |-> NoneOpt, min_fields |-> NoneOpt, blank_lines |-> NoneOpt]

\* The file at the output path: whether it exists, its content, and whether
\* it predates this execution (old).
NoFile == [exists |-> FALSE, content |-> <<>>, old |-> FALSE]

\* The styling and main variables while run is used on its own.
LibCall ==
    /\ code = <<>>
    /\ blank = 0
    /\ styled = NotStyled
    /\ args = NoArgs
    /\ mpc = "lib"
    /\ disk = NoFile

InitWith(hs, cs) ==
    /\ LibCall
    /\ pc = "headers"
    /\ headers \in hs
    /\ config \in cs
    /\ pending \in 0..MaxRows
    /\ (headers.ok /\ headers.row = <<>> => pending = 0)   \* an empty file has no records
    /\ fields = <<>>
    /\ taken = 0
    /\ record = NoRecord
    /\ skipped = FALSE
    /\ retained = <<>>
    /\ result = Running

Init ==
    InitWith({[ok |-> TRUE, row |-> h] : h \in HeaderRows} \cup {[ok |-> FALSE, row |-> <<>>]},
             Configs)

\* reader.headers() and the collect into Vec<Field>.
ParseHeaders ==
    /\ mpc \in {"lib", "run"}
    /\ pc = "headers"
    /\ IF headers.ok
       THEN /\ fields' = [i \in 1..Len(headers.row) |-> Field_from(headers.row[i])]
            /\ pc' = "records"
            /\ UNCHANGED result
       ELSE /\ result' = Err("CantParseFieldHeaders")
            /\ pc' = "returned"
            /\ UNCHANGED fields
    /\ UNCHANGED <<headers, config, pending, taken, record, skipped, retained>>
    /\ UNCHANGED <<style_vars, main_vars>>

\* One iteration of the loop over the records, for the record rec.
NextRecord(rec) ==
    /\ mpc \in {"lib", "run"}
    /\ pc = "records"
    /\ CanTake(config.lines, taken)
    /\ pending > 0
    /\ taken' = taken + 1
    /\ pending' = pending - 1
    /\ record' = rec
    /\ IF RecordIsErr(rec, NumCols)
       THEN /\ result' = Err("CantParseRecord")
            /\ pc' = "returned"
            /\ skipped' = FALSE
            /\ UNCHANGED <<fields, retained>>
       ELSE IF Skips(rec.row, config.min_fields)
       THEN /\ skipped' = TRUE
            /\ UNCHANGED <<pc, fields, retained, result>>
       ELSE IF Len(rec.row) > NumCols    \* fields.get_mut(i).unwrap() on a missing column
       THEN /\ result' = Panic
            /\ pc' = "returned"
            /\ skipped' = FALSE
            /\ fields' = ApplyRecord(fields, rec.row)
            /\ UNCHANGED retained
       ELSE /\ fields' = ApplyRecord(fields, rec.row)
            /\ retained' = Append(retained, rec.row)
            /\ skipped' = FALSE
            /\ UNCHANGED <<pc, result>>
    /\ UNCHANGED <<headers, config>>
    /\ UNCHANGED <<style_vars, main_vars>>

\* The iterator is exhausted: the limit is reached or the stream has ended.
EndRecords ==
    /\ mpc \in {"lib", "run"}
    /\ pc = "records"
    /\ ~CanTake(config.lines, taken) \/ pending = 0
    /\ pc' = "generate"
    /\ UNCHANGED <<headers, config, pending, fields, taken, record, skipped, retained, result>>
    /\ UNCHANGED <<style_vars, main_vars>>

\* generate_code(config.struct_name.as_str(), fields, config)
Generate ==
    /\ mpc \in {"lib", "run"}
    /\ pc = "generate"
    /\ result' = generate(config.struct_name, fields, config)
    /\ pc' = "returned"
    /\ UNCHANGED <<headers, config, pending, fields, taken, record, skipped, retained>>
    /\ UNCHANGED <<style_vars, main_vars>>

ReadRecord == \E rec \in Records(NumCols, Tokens) : NextRecord(rec)

Next == ParseHeaders \/ ReadRecord \/ EndRecords \/ Generate

Spec == Init /\ [][Next]_vars

\* The same run on one column, with tokens around every type's range.
TypeConfigs ==
    [lines : {NoneOpt},
     min_fields : {NoneOpt, Some(0)},
     struct_name : {<<"R","e","c">>},
     blank_lines : {NoneOpt}]

InitTypes == InitWith({[ok |-> TRUE, row |-> <<H_score>>]}, TypeConfigs)

ReadTypeRecord == \E rec \in Records(NumCols, TypeTokens) : NextRecord(rec)

NextTypes == ParseHeaders \/ ReadTypeRecord \/ EndRecords \/ Generate

SpecTypes == InitTypes /\ [][NextTypes]_vars

\* The same run with the limit unset and one filter threshold: the histories of
\* retained records are what varies.
OrderConfigs ==
    [lines : {NoneOpt},
     min_fields : {NoneOpt, Some(1)},
     struct_name : {<<"R","e","c">>},
     blank_lines : {NoneOpt}]

InitOrder == InitWith({[ok |-> TRUE, row |-> h] : h \in HeaderRows}, OrderConfigs)

SpecOrder == InitOrder /\ [][Next]_vars

\* The same run on headers with punctuation and reserved words, for every
\* blank_lines setting; the records hold short tokens.
MaxBlank == 2

H_a_b == <<"a",",","b">>

H_brace == <<"{","x","}">>

H_quote == <<"q","\"","t">>

\* Every reserved word the sanitizer can produce, as a one-column header.
KeywordHeaderRows ==
    {<<RESERVED_KEYWORDS[k]>> : k \in {j \in 1..Len(RESERVED_KEYWORDS) :
                                          Sanitize(RESERVED_KEYWORDS[j]) = RESERVED_KEYWORDS[j]}}

GenHeaderRows ==
    { <<>>, <<H_id>>, <<H_1st>>, <<H_quote>>,
      <<H_id, H_first_name, H_score>>, <<H_type, H_id>>,
      <<H_a_b, H_id>>, <<H_id, H_brace>> }
    \cup KeywordHeaderRows

GenConfigs ==
    [lines : {NoneOpt},
     min_fields : {NoneOpt},
     struct_name : {<<"R","e","c">>},
     blank_lines : {NoneOpt} \cup {Some(n) : n \in 0..MaxBlank}]

InitGen == InitWith({[ok |-> TRUE, row |-> h] : h \in GenHeaderRows}, GenConfigs)

ReadGenRecord == \E rec \in Records(NumCols, FewTokens) : NextRecord(rec)

NextGen == ParseHeaders \/ ReadGenRecord \/ EndRecords \/ Generate

SpecGen == InitGen /\ [][NextGen]_vars

\* ---- add_blank_lines called on its own (as tests::blank_lines does), beside
\* a run without data records

\* Longest text drawn from StyleAlphabet.
MaxLen == 4

StyleAlphabet == {"{", "}", ",", "x"}

\* The texts of at most n characters.
Texts(n) == UNION {[1..k -> StyleAlphabet] : k \in 0..n}

\* The `code` literal of tests::blank_lines.
TestCode == <<"#","[","d","e","r","i","v","e","(","D","e","b","u","g",","," ","D","e","s","e","r","i","a","l","i","z","e",","," ","P","a","r","t","i","a","l","E","q",")","]","\n","p","u","b"," ","s","t","r","u","c","t"," ","S","o","m","e","S","t","r","u","c","t"," ","{","\n"," "," "," "," ","p","u","b"," ","f","i","e","l","d","_","a",":"," ","S","t","r","i","n","g",",","\n"," "," "," "," ","p","u","b"," ","f","i","e","l","d","_","b",":"," ","i","3","2",",","\n"," "," "," "," ","#","[","s","e","r","d","e","(","r","e","n","a","m","e"," ","="," ","\"","t","e","r","r","i","b","l","y","N","a","m","e","d","_","F","i","e","l","d","\"",")","]","\n"," "," "," "," ","p","u","b"," ","t","e","r","r","i","b","l","y","_","n","a","m","e","d","_","f","i","e","l","d",":"," ","O","p","t","i","o","n","<","f","3","2",">",",","\n"," "," "," "," ","p","u","b"," ","f","i","e","l","d","_","d",":"," ","O","p","t","i","o","n","<","(",")",">",",","\n","}">>

StyleInputs == Texts(MaxLen) \cup {TestCode}

InitStyle ==
    /\ pc = "headers"
    /\ headers = [ok |-> TRUE, row |-> <<H_id, H_first_name>>]
    /\ config \in GenConfigs
    /\ pending = 0
    /\ fields = <<>>
    /\ taken = 0
    /\ record = NoRecord
    /\ skipped = FALSE
    /\ retained = <<>>
    /\ result = Running
    /\ code \in StyleInputs
    /\ blank \in 0..MaxBlank
    /\ styled = NotStyled
    /\ args = NoArgs
    /\ mpc = "lib"
    /\ disk = NoFile

\* add_blank_lines(code, blank)
ApplyStyle ==
    /\ styled = NotStyled
    /\ styled' = add_blank_lines(code, blank)
    /\ UNCHANGED <<code, blank, run_vars, main_vars>>

NextStyle == ParseHeaders \/ EndRecords \/ Generate \/ ApplyStyle

SpecStyle == InitStyle /\ [][NextStyle]_vars

\* -------------------------------------------------------------------- main

ToUpper(c) == IF IsLower(c) THEN Uppers[CHOOSE i \in 1..26 : Lowers[i] = c] ELSE c

\* convert_case's Pattern::Capital on one word.
Capital(w) == [i \in 1..Len(w) |-> IF i = 1 THEN ToUpper(w[i]) ELSE ToLower(w[i])]

RECURSIVE ConcatWords(_)
ConcatWords(words) ==
    IF words = <<>> THEN <<>> ELSE Capital(Head(words)) \o ConcatWords(Tail(words))

\* Casing::to_case(Case::Pascal)
to_case_Pascal(s) ==
    ConcatWords(SelectSeq(SplitWords(s, 1, <<>>, <<>>), LAMBDA w : w # <<>>))

\* Path::file_stem for a path without directories: none for `..`, else the
\* name up to its last dot (the whole name when it has no dot after the
\* first character).
file_stem(path) ==
    IF path = <<".", ".">> THEN NoText
    ELSE LET k == LastIndex(path, ".")
         IN  SomeText(IF k <= 1 THEN path ELSE SubSeq(path, 1, k - 1))

\* The struct_name match of main: the name selected, a panic of
\* get_name_from_path, or the branch marked unreachable.
select_struct_name(a) ==
    IF a.name.some THEN [kind |-> "Ok", name |-> to_case_Pascal(a.name.v)]
    ELSE IF a.file.some
    THEN LET stem == file_stem(a.file.v)
         IN  IF stem.some THEN [kind |-> "Ok", name |-> to_case_Pascal(stem.v)]
             ELSE [kind |-> "Panic", name |-> <<>>]
    ELSE [kind |-> "Unreachable", name |-> <<>>]

\* clap refuses the command line: --force requires --output.
clap_rejects(a) == a.force /\ ~a.output

\* A variant of open_destination that opens with create(true).
open_destination_create(force, d) ==
    [ok |-> TRUE, disk |-> [exists |-> TRUE, content |-> <<>>, old |-> d.old]]

\* File::options().read(false).write(true).create_new(!force).truncate(true)
\* .open(path) on the file d: without force the file is created and must not
\* exist; with force it must exist and is truncated.
open_destination(force, d) ==
    IF force
    THEN IF d.exists THEN [ok |-> TRUE, disk |-> [d EXCEPT !.content = <<>>]]
         ELSE [ok |-> FALSE, disk |-> d]
    ELSE IF d.exists THEN [ok |-> FALSE, disk |-> d]
         ELSE [ok |-> TRUE, disk |-> [exists |-> TRUE, content |-> <<>>, old |-> FALSE]]

P_people == <<"p","e","o","p","l","e",".","c","s","v">>

N_my_rec == <<"m","y"," ","r","e","c">>

OldContent == <<"o","l","d">>

\* Command lines: the input path, --name, whether --output is given, --force,
\* --blank-lines (which defaults to 1, so it is always set).
ArgSets ==
    [file : {NoText, SomeText(P_people), SomeText(<<".", ".">>)},
     name : {NoText, SomeText(N_my_rec)},
     output : BOOLEAN,
     force : BOOLEAN,
     lines : {NoneOpt},
     min_fields : {NoneOpt},
     blank_lines : {Some(0), Some(1)}]

\* Header records of the input main reads.
MainHeaderRows == { <<H_id, H_score>>, <<H_1st>> }

\* The Config before main has built it.
NoConfig ==
    [lines |-> NoneOpt, min_fields |-> NoneOpt, struct_name |-> <<>>, blank_lines |-> NoneOpt]

\* main starts: the command line, the input's content and the file at the
\* output path (absent, or holding earlier content) are the environment's.
InitMain ==
    /\ mpc = "start"
    /\ args \in ArgSets
    /\ disk \in {NoFile, [exists |-> TRUE, content |-> OldContent, old |-> TRUE]}
    /\ pc = "headers"
    /\ headers \in {[ok |-> TRUE, row |-> h] : h \in MainHeaderRows} \cup {[ok |-> FALSE, row |-> <<>>]}
    /\ config = NoConfig
    /\ pending \in 0..1
    /\ fields = <<>>
    /\ taken = 0
    /\ record = NoRecord
    /\ skipped = FALSE
    /\ retained = <<>>
    /\ result = Running
    /\ code = <<>>
    /\ blank = 0
    /\ styled = NotStyled

\* Args::parse(): clap exits on a command line it refuses.
ParseArgs ==
    /\ mpc = "start"
    /\ mpc' = IF clap_rejects(args) THEN "rejected" ELSE "name"
    /\ UNCHANGED <<args, disk, run_vars, style_vars>>

\* The struct_name match.
SelectName ==
    /\ mpc = "name"
    /\ LET s == select_struct_name(args)
       IN  IF s.kind = "Ok"
           THEN /\ config' = [config EXCEPT !.struct_name = s.name]
                /\ mpc' = "reader"
           ELSE /\ mpc' = IF s.kind = "Unreachable" THEN "unreachable" ELSE "panicked"
                /\ UNCHANGED config
    /\ UNCHANGED <<args, disk, style_vars>>
    /\ UNCHANGED <<pc, headers, pending, fields, taken, record, skipped, retained, result>>

\* The reader: File::open(path).expect(..) may fail, stdin is always there; then
\* the Config literal.
OpenReader ==
    /\ mpc = "reader"
    /\ \E opened \in BOOLEAN :
          IF args.file.some /\ ~opened
          THEN mpc' = "panicked" /\ UNCHANGED config
          ELSE /\ config' = [lines |-> args.lines,
                             min_fields |-> args.min_fields,
                             struct_name |-> config.struct_name,
                             blank_lines |-> args.blank_lines]
               /\ mpc' = "run"
    /\ UNCHANGED <<args, disk, style_vars>>
    /\ UNCHANGED <<pc, headers, pending, fields, taken, record, skipped, retained, result>>

\* csv2serde::run(reader, &config).unwrap()
Unwrap ==
    /\ mpc = "run"
    /\ pc = "returned"
    /\ mpc' = IF result.kind = "Ok" THEN "open" ELSE "panicked"
    /\ UNCHANGED <<args, disk, run_vars, style_vars>>

\* WriteDestination::from(args)
OpenDestination ==
    /\ mpc = "open"
    /\ IF args.output
       THEN LET o == open_destination(args.force, disk)
            IN  /\ disk' = o.disk
                /\ mpc' = IF o.ok THEN "write" ELSE "panicked"
       ELSE mpc' = "write" /\ UNCHANGED disk
    /\ UNCHANGED <<args, run_vars, style_vars>>

\* output.write_all(code.as_bytes()).unwrap() and output.flush().unwrap(): the
\* write may fail, leaving the file as opened.
WriteAll ==
    /\ mpc = "write"
    /\ \E written \in BOOLEAN :
          IF written
          THEN /\ mpc' = "done"
               /\ disk' = IF args.output THEN [disk EXCEPT !.content = result.text] ELSE disk
          ELSE mpc' = "panicked" /\ UNCHANGED disk
    /\ UNCHANGED <<args, run_vars, style_vars>>

NextMain ==
    \/ ParseArgs \/ SelectName \/ OpenReader
    \/ ParseHeaders \/ ReadGenRecord \/ EndRecords \/ Generate
    \/ Unwrap \/ OpenDestination \/ WriteAll

SpecMain == InitMain /\ [][NextMain]_vars

\* ------------------------------------------------------------------ claims

Range(s) == {s[i] : i \in 1..Len(s)}

\* The fields as Field::from built them from the header (update_for never
\* changes a name).
InitialFields == [i \in 1..Len(fields) |-> NewField(fields[i].name, fields[i].raw_name)]

\* The tokens the retained records hold in column i.
Observed(i) == {retained[r][i] : r \in 1..Len(retained)}

NonEmptyObserved(i) == Observed(i) \ {<<>>}

\* C1: update_for never adds a candidate back: in every step, each column's
\* remaining candidates are a subset of the candidates it had before the step,
\* whether the token applied was empty or not.
C1_Monotone ==
    [][\A i \in 1..Len(fields) :
          Range(fields'[i].valid_parsers) \subseteq Range(fields[i].valid_parsers)]_vars

\* C1 witness: two records were applied, one column saw an empty and a
\* non-empty token, and its candidates were narrowed.
C1_Witness ==
    /\ Len(retained) = 2
    /\ \E i \in 1..Len(fields) :
          /\ <<>> \in Observed(i)
          /\ NonEmptyObserved(i) # {}
          /\ Len(fields[i].valid_parsers) < Len(all)

\* C2: once the header is parsed, every column's remaining candidates are
\* non-empty and contain String, whatever tokens update_for was given.
C2_StringSurvives ==
    \A i \in 1..Len(fields) :
        /\ fields[i].valid_parsers # <<>>
        /\ Contains(fields[i].valid_parsers, "String")

\* C2 witness: a column whose tokens eliminated every candidate but String.
C2_Witness ==
    /\ Len(retained) >= 2
    /\ fields[1].valid_parsers = <<"String">>
    /\ Cardinality(NonEmptyObserved(1)) >= 2

Perms(n) == {f \in [1..n -> 1..n] : \A a, b \in 1..n : f[a] = f[b] => a = b}

Permuted(rows, f) == [k \in 1..Len(rows) |-> rows[f[k]]]

\* C3: when the loop over the records has ended, the resolved type of every
\* column is the one that processing the retained records in any other order
\* leads to.
C3_OrderIndependent ==
    pc = "generate" =>
        LET names == [i \in 1..Len(fields) |-> Field_type_name(fields[i])]
        IN  \A f \in Perms(Len(retained)) :
                LET fs == ApplyAll(InitialFields, Permuted(retained, f))
                IN  \A i \in 1..Len(fields) : Field_type_name(fs[i]) = names[i]

\* C3 witness: the loop ended after two different records that, alone, would
\* give some column different types.
C3_Witness ==
    /\ pc = "generate"
    /\ Len(retained) = 2
    /\ \E i \in 1..Len(fields) :
          Field_type_name(ApplyRecord(InitialFields, retained[1])[i])
              # Field_type_name(ApplyRecord(InitialFields, retained[2])[i])

\* The positions, in the candidate order, of the candidates whose predicate
\* accepts every non-empty token observed in column i.
Accepting(i) == {k \in 1..Len(all) : \A t \in NonEmptyObserved(i) : can_parse(all[k], t)}

C4_Order == <<"U8", "U16", "U32", "U64", "U128", "I8", "I16", "I32", "I64", "I128",
              "F32", "F64", "String">>

\* C4: for a column that saw a non-empty token, the type name is that of the
\* first candidate of the order u8..String still among the remaining ones; it
\* accepts every non-empty token observed, and every earlier candidate rejects
\* at least one of them.
C4_NarrowestSelected ==
    \A i \in 1..Len(fields) :
        NonEmptyObserved(i) # {} =>
            LET name == Field_type_name(fields[i])
                remaining == Range(fields[i].valid_parsers)
                accepting == Accepting(i)
            IN  \E k \in 1..Len(C4_Order) :
                    /\ name \in {TYPE_NAMES[k], OPTIONAL_TYPE_NAMES[k]}
                    /\ index(C4_Order[k]) = k - 1
                    /\ C4_Order[k] \in remaining
                    /\ \A j \in 1..(k - 1) : C4_Order[j] \notin remaining
                    /\ k \in accepting
                    /\ \A j \in 1..(k - 1) : j \notin accepting

\* C4 witness: two non-empty tokens narrowed a column to i16, a candidate in
\* the middle of the order.
C4_Witness ==
    /\ Len(fields) = 1
    /\ Cardinality(NonEmptyObserved(1)) = 2
    /\ Field_type_name(fields[1]) = <<"i","1","6">>

OptionOf(name) == <<"O","p","t","i","o","n","<">> \o name \o <<">">>

\* C5: for a column that saw a non-empty token, the type name is Option<T>
\* when a retained record held an empty token in the column and T otherwise,
\* T being the bare name of the selected candidate; every optional name is
\* "Option<" + bare name + ">".
C5_OptionalIffEmptySeen ==
    /\ \A k \in 1..Len(all) : OPTIONAL_TYPE_NAMES[k] = OptionOf(TYPE_NAMES[k])
    /\ \A i \in 1..Len(fields) :
          NonEmptyObserved(i) # {} =>
              LET bare == TYPE_NAMES[index(Selected(fields[i])) + 1]
              IN  Field_type_name(fields[i]) =
                      IF <<>> \in Observed(i) THEN OptionOf(bare) ELSE bare

\* C5 witness: a column with an empty and a non-empty token resolved to an
\* optional numeric type.
C5_Witness ==
    /\ Len(fields) = 1
    /\ <<>> \in Observed(1)
    /\ NonEmptyObserved(1) # {}
    /\ Field_type_name(fields[1]) = OptionOf(<<"u","1","6">>)

\* C6: a column with no non-empty token in the retained records (none at all
\* included) resolves to Option<()>, in the fields and in the declaration a
\* successful run returns, whatever the row limit and whether or not an empty
\* token was seen.
C6_AllEmptyPlaceholder ==
    (headers.ok /\ pc # "headers") =>
        \A i \in 1..Len(fields) :
            NonEmptyObserved(i) = {} =>
                /\ Field_type_name(fields[i]) = OptionUnit
                /\ (result.kind = "Ok" => result.decl[i].ty = OptionUnit)

\* C6 witness: a run with a row limit returned a declaration in which a column
\* that saw only empty tokens has the placeholder type.
C6_Witness ==
    /\ result.kind = "Ok"
    /\ config.lines.some
    /\ \E i \in 1..Len(fields) :
          /\ Observed(i) = {<<>>}
          /\ fields[i].optional
          /\ result.decl[i].ty = OptionUnit

\* C7: a record read with min_fields set and at most min_fields non-empty
\* tokens leaves every column (candidates, optional, is_empty) as it was; any
\* other record read, and every record when min_fields is unset, is applied
\* to every column.
C7_SkippedRowChangesNothing ==
    [][(taken' = taken + 1 /\ record'.ok /\ Len(record'.row) = Len(fields)) =>
          IF config.min_fields.some /\ NonEmptyCount(record'.row) <= config.min_fields.v
          THEN fields' = fields /\ retained' = retained
          ELSE /\ Len(fields') = Len(fields)
               /\ \A i \in 1..Len(fields) :
                     fields'[i] = update_for(fields[i], record'.row[i])
               /\ retained' = Append(retained, record'.row)]_vars

\* C7 witness: min_fields is 1 and the first record, with exactly one
\* non-empty token among two, was skipped and left the columns untouched.
C7_Witness ==
    /\ skipped
    /\ taken = 1
    /\ config.min_fields = Some(1)
    /\ Len(record.row) = 2
    /\ NonEmptyCount(record.row) = 1
    /\ fields = InitialFields

\* C8: run takes at most config.lines records, skipped ones included; once
\* the limit is reached no step reads a record, changes a column or fails;
\* the loop ends with the limit reached or the stream exhausted, and with the
\* limit unset only with the stream exhausted.
C8_RowLimit ==
    /\ [](config.lines.some => taken <= config.lines.v)
    /\ [](pc = "generate" =>
            IF config.lines.some /\ config.lines.v < taken + pending
            THEN taken = config.lines.v
            ELSE pending = 0)
    /\ [][/\ pending' # pending => (pending' = pending - 1 /\ taken' = taken + 1)
          /\ (pc = "records" /\ config.lines.some /\ taken >= config.lines.v) =>
                 (fields' = fields /\ pending' = pending /\ result' = Running)]_vars

\* C8 witness: the loop ended at the limit with a record left unread, the last
\* record taken being one the filter skipped.
C8_Witness ==
    /\ pc = "generate"
    /\ config.lines.some
    /\ config.lines.v >= 1
    /\ taken = config.lines.v
    /\ pending > 0
    /\ skipped

\* C9: once a record whose length differs from the header's has been read, run
\* has returned Err(CantParseRecord) with no declaration, and the fields are
\* those the earlier full-length records produced: the record was not applied.
C9_MismatchIsFatal ==
    (taken >= 1 /\ record.ok /\ Len(record.row) # Len(headers.row)) =>
        /\ pc = "returned"
        /\ result = Err("CantParseRecord")
        /\ \A r \in 1..Len(retained) : Len(retained[r]) = Len(headers.row)
        /\ fields = ApplyAll(InitialFields, retained)

\* C9 witness: after a record that was applied, a shorter record holding a
\* value ended the run with the error.
C9_Witness ==
    /\ result = Err("CantParseRecord")
    /\ record.ok
    /\ Len(record.row) < Len(fields)
    /\ NonEmptyCount(record.row) >= 1
    /\ Len(retained) >= 1

\* C10: given a struct name that is an identifier, run never ends in a panic:
\* every failure is a returned Err without a declaration, and a returned
\* declaration holds only valid identifiers.
C10_FailuresAreReturned ==
    (pc = "returned" /\ ~IdentPanics(config.struct_name)) =>
        /\ result.kind \in {"Ok", "Err"}
        /\ result.kind = "Err" => result.decl = <<>>
        /\ result.kind = "Ok" =>
              \A i \in 1..Len(result.decl) : ~IdentPanics(result.decl[i].ident)

\* ---- reading a printed declaration back, as a Rust parser reads it

StartsWithAt(t, i, p) == i + Len(p) - 1 <= Len(t) /\ SubSeq(t, i, i + Len(p) - 1) = p

RECURSIVE SkipBlanks(_, _)
SkipBlanks(t, i) ==
    IF i <= Len(t) /\ t[i] \in {" ", "\n"} THEN SkipBlanks(t, i + 1) ELSE i

RECURSIVE UntilChar(_, _, _)
\* Position of the first c at or after i, Len(t) + 1 when there is none.
UntilChar(t, i, c) ==
    IF i > Len(t) \/ t[i] = c THEN i ELSE UntilChar(t, i + 1, c)

RECURSIVE ReadLiteral(_, _, _)
\* The value of the string literal whose content starts at i, and the
\* position after its closing quote: a backslash stands for the character
\* after it, every other character (a line break too) for itself.
ReadLiteral(t, i, acc) ==
    IF i > Len(t) THEN [v |-> acc, next |-> i]
    ELSE IF t[i] = "\"" THEN [v |-> acc, next |-> i + 1]
    ELSE IF t[i] = "\\" /\ i < Len(t) THEN ReadLiteral(t, i + 2, Append(acc, t[i + 1]))
    ELSE ReadLiteral(t, i + 1, Append(acc, t[i]))

RenameOpening == <<"#","[","s","e","r","d","e","(","r","e","n","a","m","e"," ","="," ","\"">>

RECURSIVE ReadFields(_, _, _)
\* The fields of the struct block from position i on: for each, the
\* identifier, the value of the rename attribute when it has one, the type.
ReadFields(t, i, acc) ==
    LET a == SkipBlanks(t, i)
        hasAttr == StartsWithAt(t, a, RenameOpening)
        lit == IF hasAttr THEN ReadLiteral(t, a + Len(RenameOpening), <<>>)
               ELSE [v |-> <<>>, next |-> a]
        b == IF hasAttr THEN SkipBlanks(t, lit.next + 2) ELSE a
        colon == UntilChar(t, b + 4, ":")
        comma == UntilChar(t, colon, ",")
    IN  IF ~StartsWithAt(t, b, <<"p","u","b"," ">>) \/ comma > Len(t) THEN acc
        ELSE ReadFields(t, comma + 1,
                        Append(acc, [ident |-> SubSeq(t, b + 4, colon - 1),
                                     rename |-> IF hasAttr THEN SomeText(lit.v) ELSE NoText,
                                     ty |-> SubSeq(t, colon + 2, comma - 1)]))

ReadDeclaration(text) == ReadFields(text, FirstIndex(text, "{") + 1, <<>>)

\* C11: a declaration run returns has one field per header column, in header
\* order, each named by the column's sanitized identifier; in the syntax tree
\* and in the returned text read back, a field has a serde rename attribute
\* exactly when that identifier differs from the raw header text.
C11_RenameIffNameDiffers ==
    result.kind = "Ok" =>
        LET read == ReadDeclaration(result.text)
        IN  /\ Len(result.decl) = Len(headers.row)
            /\ Len(read) = Len(headers.row)
            /\ \A i \in 1..Len(headers.row) :
                  /\ result.decl[i].ident = fields[i].name
                  /\ read[i].ident = fields[i].name
                  /\ result.decl[i].rename.some <=> (fields[i].name # headers.row[i])
                  /\ read[i].rename.some <=> (fields[i].name # headers.row[i])

\* C11 witness: a styled declaration of three columns, the first without a
\* rename attribute, the second and third with one.
C11_Witness ==
    /\ result.kind = "Ok"
    /\ config.blank_lines = Some(1)
    /\ headers.row = <<H_id, H_first_name, H_score>>
    /\ ~result.decl[1].rename.some
    /\ result.decl[2].rename = SomeText(H_first_name)
    /\ ReadDeclaration(result.text)[3].rename = SomeText(H_score)

\* C12: in a declaration run returns, whatever the blank_lines setting, every
\* column whose identifier differs from its raw header text has a rename
\* attribute whose string value, read back from the returned text, is the raw
\* header text character for character.
C12_RenameRoundTrip ==
    result.kind = "Ok" =>
        LET read == ReadDeclaration(result.text)
        IN  \A i \in 1..Len(headers.row) :
                fields[i].name # headers.row[i] =>
                    /\ i <= Len(read)
                    /\ read[i].rename = SomeText(headers.row[i])

\* run has returned what generate gave it: no header or record error ended it.
Generated == pc = "returned" /\ result.error \notin {"CantParseFieldHeaders", "CantParseRecord"}

\* C13: for every header whose sanitized form is an entry of the
\* reserved-word list, the lookup finds the entry, the field's identifier is
\* r# followed by the word, and generation succeeds: run returns a
\* declaration that reads back with that identifier.
C13_ReservedWordsEscaped ==
    Generated =>
        \A i \in 1..Len(headers.row) :
            LET word == Sanitize(headers.row[i])
            IN  Contains(RESERVED_KEYWORDS, word) =>
                    /\ keywords_check(word)
                    /\ fields[i].name = <<"r", "#">> \o word
                    /\ result.kind = "Ok"
                    /\ ReadDeclaration(result.text)[i].ident = <<"r", "#">> \o word

RECURSIVE UnitsWithSeparator(_, _)
\* The printed field units of decl, in order, with sep between every two
\* consecutive ones and nowhere else.
UnitsWithSeparator(decl, sep) ==
    IF decl = <<>> THEN <<>>
    ELSE IF Len(decl) = 1 THEN unparse_field(decl[1])
    ELSE unparse_field(decl[1]) \o sep \o UnitsWithSeparator(Tail(decl), sep)

\* C14: for a declaration of k fields and blank_lines n >= 1, the styled text
\* is the printed text with exactly n line breaks between every two
\* consecutive field units (the attribute line, when there is one, and the
\* field line) and nothing else added: none before the first unit, after the
\* last, or between an attribute and its field, and the text before the
\* opening and after the closing brace is the printed one.
C14_BlankLinesBetweenUnits ==
    (result.kind = "Ok" /\ config.blank_lines.some /\ config.blank_lines.v >= 1) =>
        LET n == config.blank_lines.v
            printed == unparse(config.struct_name, result.decl)
            open == FirstIndex(printed, "{")
        IN  result.text =
                IF result.decl = <<>> THEN printed
                ELSE SubSeq(printed, 1, open + 1)
                     \o UnitsWithSeparator(result.decl, [j \in 1..n |-> "\n"])
                     \o <<"}", "\n">>

\* s holds a '{' followed later by a '}'.
HasBlock(s) == \E i, j \in 1..Len(s) : i < j /\ s[i] = "{" /\ s[j] = "}"

\* C15: add_blank_lines(s, 0) returns s itself, character for character, for
\* every s that holds a '{' followed later by a '}'; and generate with
\* blank_lines unset or 0 returns the pretty-printed declaration as it is.
C15_ZeroIsIdentity ==
    /\ (styled # NotStyled /\ blank = 0 /\ HasBlock(code)) => styled = StyleOk(code)
    /\ (result.kind = "Ok" /\ (~config.blank_lines.some \/ config.blank_lines.v = 0)) =>
           result.text = unparse(config.struct_name, result.decl)

\* C15 witness: add_blank_lines(code, 0) was applied to the declaration of
\* the unit test, with commas, an attribute and four fields, and run returned
\* a declaration with blank_lines = 0.
C15_Witness ==
    /\ code = TestCode
    /\ blank = 0
    /\ styled.kind = "Ok"
    /\ result.kind = "Ok"
    /\ config.blank_lines = Some(0)
    /\ Len(result.decl) = 2

\* C16: the file at the output path changes only in the steps that open and
\* write the destination, which happen only after run returned a declaration;
\* a file that existed before is changed only when --force is set; without
\* --force, opening a destination that exists fails and leaves the file as it
\* was.
C16_OutputOnlyWithForce ==
    [][/\ disk' # disk => (result.kind = "Ok" /\ mpc \in {"open", "write"})
       /\ (disk.old /\ disk' # disk) => args.force
       /\ (mpc = "open" /\ args.output /\ ~args.force /\ disk.exists) =>
              (mpc' = "panicked" /\ disk' = disk)]_vars

\* C16 witness: with --force, main wrote the declaration over the earlier
\* content of the output file.
C16_Witness ==
    /\ mpc = "done"
    /\ args.output
    /\ args.force
    /\ result.kind = "Ok"
    /\ disk.old
    /\ disk.content = result.text
    /\ disk.content # OldContent

\* C17: on every command line clap accepts, the struct_name match finds a
\* name or an input path: main never reaches the branch marked unreachable,
\* and past the match one of the two is present.
C17_NameOrPathFound ==
    /\ mpc # "unreachable"
    /\ mpc \notin {"start", "rejected", "name"} => (args.name.some \/ args.file.some)

====
